---- MODULE Spec2Model ----
(***************************************************************************)
(* Meal planner: recipe selection, ingredient matching, recency memory and *)
(* shopping-list consolidation (backend/app/*.py, python-version/main.py). *)
(*                                                                         *)
(* Scores are Python floats built from 5*k/n and small integers; they are  *)
(* modelled as exact fractions [num, den] and compared by cross            *)
(* multiplication.  Ingredient quantities are modelled as integers.        *)
(***************************************************************************)
EXTENDS Integers, Sequences, FiniteSets, TLC

VARIABLES
    today,              \* wall-clock date (day number) read by date.today()
    meal_plans,         \* MemoryModule.meal_plans : date -> MealPlan
    recent_recipe_ids,  \* MemoryModule.recent_recipe_ids
    last_op,            \* the operation executed last
    available_recipes,  \* candidate list given to select_meals / the recipe under test
    preferences,        \* UserPreferences
    selected,           \* result of select_meals: <<breakfast, lunch, dinner>>
    meals,              \* Meal records built by create_meal
    meal_plan,          \* result of generate_meal_plan
    score,              \* result of _calculate_recipe_score
    raw_ingredients,    \* the strings given to parse_ingredients, each already split()
    saved_recipes,      \* MemoryModule.saved_recipes : id -> [recipe, saved_at]
    ret,                \* return value (or exception) of the call executed last
    plan_log,           \* history: <<date, id>> of every recipe of every stored plan
    calls,              \* the store_meal_plan calls in progress: position and locals
    mem0                \* history: the memory when the concurrent calls began

auxvars == <<raw_ingredients, saved_recipes, ret, plan_log, calls, mem0>>

vars == <<today, meal_plans, recent_recipe_ids, last_op, available_recipes,
          preferences, selected, meals, meal_plan, score, auxvars>>

memvars == <<today, meal_plans, recent_recipe_ids>>

----------------------------------------------------------------------------
(* Bounds of the model *)

MaxDay == 9
MaxPlans == 2
MaxReq == 2
MaxAvail == 2
MaxExcluded == 2
MaxCandidates == 5
MaxMissing == 2
MaxTokens == 3
MaxRaw == 2

----------------------------------------------------------------------------
(* Data model (models.py) *)

\* Python's None
None == [id |-> "None"]

DietaryPreference == {"none", "vegetarian", "vegan", "keto", "paleo"}

MealTypes == <<"breakfast", "lunch", "dinner">>

MkIngredient(n, q, u) == [name |-> n, quantity |-> q, unit |-> u]

MkRecipe(i, mt, req, pt, dp) ==
    [id |-> i, meal_type |-> mt, required_ingredients |-> req,
     preparation_time |-> pt, dietary_preferences |-> dp]

MkPreferences(dp, avail, excl, mpt) ==
    [dietary_preference |-> dp, available_ingredients |-> avail,
     excluded_ingredients |-> excl, max_preparation_time |-> mpt]

MkMeal(r, used, missing) ==
    [recipe |-> r, used_ingredients |-> used, missing_ingredients |-> missing]

MkMealPlan(d, b, l, dn, sl) ==
    [date |-> d, breakfast |-> b, lunch |-> l, dinner |-> dn, shopping_list |-> sl]

SeqUpTo(S, n) == UNION {[1..k -> S] : k \in 0..n}

Range(s) == {s[i] : i \in DOMAIN s}

----------------------------------------------------------------------------
(* DecisionMaker._calculate_recipe_score *)

\* set(ing.name for ing in ingredients), built element by element
RECURSIVE NameSet(_)
NameSet(ings) ==
    IF ings = <<>> THEN {}
    ELSE {Head(ings).name} \cup NameSet(Tail(ings))

\* any(excluded in required for excluded in excluded_ingredients)
RECURSIVE AnyExcluded(_, _)
AnyExcluded(excluded, required) ==
    IF excluded = <<>> THEN FALSE
    ELSE IF Head(excluded) \in required THEN TRUE
    ELSE AnyExcluded(Tail(excluded), required)

\* Optional[int]: None is <<>>, the integer n is <<n>>
Unset == <<>>

Some(n) == <<n>>

\* Python truthiness of Optional[int]: None and 0 are falsy
Truthy(x) == x /= Unset /\ x[1] /= 0

\* a score num/den, den > 0
Frac(n, d) == [num |-> n, den |-> d]

AddInt(s, k) == Frac(s.num + k * s.den, s.den)

FracGT(a, b) == a.num * b.den > b.num * a.den

FracEQ(a, b) == a.num * b.den = b.num * a.den

AvailabilityTerm(available, required) ==
    IF required /= {}
    THEN Frac(5 * Cardinality(available \cap required), Cardinality(required))
    ELSE Frac(0, 1)

PrepTimeTerm(recipe, prefs) ==
    IF Truthy(prefs.max_preparation_time)
    THEN IF recipe.preparation_time <= prefs.max_preparation_time[1] THEN 2 ELSE -1
    ELSE 0

DietaryTerm(recipe, prefs) ==
    IF prefs.dietary_preference \in Range(recipe.dietary_preferences) THEN 3 ELSE 0

\* mutant: the penalty is applied once per matching excluded entry
ExcludedTermPerName(required, prefs) ==
    -10 * Cardinality({i \in DOMAIN prefs.excluded_ingredients :
                            prefs.excluded_ingredients[i] \in required})

ExcludedTerm(required, prefs) ==
    IF AnyExcluded(prefs.excluded_ingredients, required) THEN -10 ELSE 0

_calculate_recipe_score(recipe, prefs) ==
    LET available_ingredients == NameSet(prefs.available_ingredients)
        required_ingredients == NameSet(recipe.required_ingredients)
        s1 == AvailabilityTerm(available_ingredients, required_ingredients)
        s2 == AddInt(s1, PrepTimeTerm(recipe, prefs))
        s3 == AddInt(s2, DietaryTerm(recipe, prefs))
    IN  AddInt(s3, ExcludedTerm(required_ingredients, prefs))

----------------------------------------------------------------------------
(* MemoryModule *)

\* timedelta(days=7)
RecencyDays == 7

PlanIds(plan) ==
    {plan.breakfast.recipe.id, plan.lunch.recipe.id, plan.dinner.recipe.id}

\* the ids collected by the loop of _cleanup_old_recipes
old_recipe_ids(plans, now) ==
    LET cutoff_date == now - RecencyDays
    IN  UNION {PlanIds(plans[d]) : d \in {e \in DOMAIN plans : e < cutoff_date}}

_cleanup_old_recipes(plans, recent, now) == recent \ old_recipe_ids(plans, now)

\* mutant: a plan already stored for the date is kept
PutPlanKeepFirst(plans, plan) ==
    [d \in DOMAIN plans \cup {plan.date} |-> IF d \in DOMAIN plans THEN plans[d] ELSE plan]

\* self.meal_plans[meal_plan.date] = meal_plan
PutPlan(plans, plan) ==
    [d \in DOMAIN plans \cup {plan.date} |-> IF d = plan.date THEN plan ELSE plans[d]]

\* store_meal_plan: the new [meal_plans, recent_recipe_ids]
store_meal_plan(plans, recent, plan, now) ==
    LET plans2 == PutPlan(plans, plan)
        recent2 == recent \cup PlanIds(plan)
    IN  [meal_plans |-> plans2,
         recent_recipe_ids |-> _cleanup_old_recipes(plans2, recent2, now)]

is_recipe_recently_used(recipe, recent) == recipe.id \in recent

\* self.meal_plans.get(target_date)
get_past_meal_plan(plans, target_date) ==
    IF target_date \in DOMAIN plans THEN plans[target_date] ELSE None

----------------------------------------------------------------------------
(* DecisionMaker._select_best_recipe, DecisionMaker.select_meals *)

\* float('-inf')
NegInf == Frac(-1, 0)

\* mutant: score >= best_score, so the last maximum wins
ScoreBeatsOrTies(s, best_score) ==
    IF best_score = NegInf THEN TRUE ELSE ~FracGT(best_score, s)

\* score > best_score
ScoreBeats(s, best_score) ==
    IF best_score = NegInf THEN TRUE ELSE FracGT(s, best_score)

\* the scan over recipes; recent is memory.recent_recipe_ids
RECURSIVE ScanRecipes(_, _, _, _, _)
ScanRecipes(recipes, prefs, recent, best_score, best_recipe) ==
    IF recipes = <<>> THEN best_recipe
    ELSE LET recipe == Head(recipes)
             s == _calculate_recipe_score(recipe, prefs)
         IN  IF is_recipe_recently_used(recipe, recent)
             THEN ScanRecipes(Tail(recipes), prefs, recent, best_score, best_recipe)
             ELSE IF ScoreBeats(s, best_score)
                  THEN ScanRecipes(Tail(recipes), prefs, recent, s, recipe)
                  ELSE ScanRecipes(Tail(recipes), prefs, recent, best_score, best_recipe)

\* mutant: the fallback takes the last recipe of the slot
FallbackLast(recipes, best_recipe) ==
    IF best_recipe = None /\ recipes /= <<>> THEN recipes[Len(recipes)] ELSE best_recipe

\* if best_recipe is None and recipes: best_recipe = recipes[0]
Fallback(recipes, best_recipe) ==
    IF best_recipe = None /\ recipes /= <<>> THEN recipes[1] ELSE best_recipe

_select_best_recipe(recipes, prefs, recent) ==
    Fallback(recipes, ScanRecipes(recipes, prefs, recent, NegInf, None))

\* [r for r in available_recipes if r.meal_type == meal_type]
Options(recipes, meal_type) == SelectSeq(recipes, LAMBDA r : r.meal_type = meal_type)

select_meals(recipes, prefs, recent) ==
    <<_select_best_recipe(Options(recipes, "breakfast"), prefs, recent),
      _select_best_recipe(Options(recipes, "lunch"), prefs, recent),
      _select_best_recipe(Options(recipes, "dinner"), prefs, recent)>>

----------------------------------------------------------------------------
(* DecisionMaker.create_meal *)

\* mutant: the unit is not compared
IngredientSatisfiesAnyUnit(required_ing, available_ing) ==
    /\ required_ing.name = available_ing.name
    /\ required_ing.quantity <= available_ing.quantity

IngredientSatisfies(required_ing, available_ing) ==
    /\ required_ing.name = available_ing.name
    /\ required_ing.unit = available_ing.unit
    /\ required_ing.quantity <= available_ing.quantity

\* mutant: the inner loop without its break
RECURSIVE ScanAvailableNoBreak(_, _, _)
ScanAvailableNoBreak(required_ing, available_ingredients, used) ==
    IF available_ingredients = <<>> THEN used
    ELSE ScanAvailableNoBreak(
            required_ing, Tail(available_ingredients),
            IF IngredientSatisfies(required_ing, Head(available_ingredients))
            THEN Append(used, required_ing) ELSE used)

\* the inner loop: the used list after scanning the pool for one required ingredient
\* (appends at the first satisfying item and breaks)
RECURSIVE ScanAvailable(_, _, _)
ScanAvailable(required_ing, available_ingredients, used) ==
    IF available_ingredients = <<>> THEN used
    ELSE IF IngredientSatisfies(required_ing, Head(available_ingredients))
         THEN Append(used, required_ing)
         ELSE ScanAvailable(required_ing, Tail(available_ingredients), used)

\* the value of `found` after the inner loop
RECURSIVE Found(_, _)
Found(required_ing, available_ingredients) ==
    IF available_ingredients = <<>> THEN FALSE
    ELSE IF IngredientSatisfies(required_ing, Head(available_ingredients)) THEN TRUE
    ELSE Found(required_ing, Tail(available_ingredients))

\* the outer loop over recipe.required_ingredients
RECURSIVE MatchIngredients(_, _, _, _)
MatchIngredients(required, available_ingredients, used, missing) ==
    IF required = <<>> THEN [used |-> used, missing |-> missing]
    ELSE LET required_ing == Head(required)
             used2 == ScanAvailable(required_ing, available_ingredients, used)
             missing2 == IF Found(required_ing, available_ingredients)
                         THEN missing ELSE Append(missing, required_ing)
         IN  MatchIngredients(Tail(required), available_ingredients, used2, missing2)

create_meal(recipe, available_ingredients) ==
    LET m == MatchIngredients(recipe.required_ingredients, available_ingredients,
                              <<>>, <<>>)
    IN  MkMeal(recipe, m.used, m.missing)

----------------------------------------------------------------------------
(* ActionModule._compile_shopping_list, ActionModule.generate_meal_plan *)

\* mutant: entries are keyed by name alone
SameKeyNameOnly(a, b) == a.name = b.name

\* key = (ingredient.name, ingredient.unit)
SameKey(a, b) == a.name = b.name /\ a.unit = b.unit

\* the positions in the recipe's required_ingredients of the objects create_meal
\* appended to missing_ingredients
MissingPositions(meal) ==
    {j \in DOMAIN meal.recipe.required_ingredients :
        meal.recipe.required_ingredients[j] \in Range(meal.missing_ingredients)}

\* missing_ingredients[i] and required_ingredients[RequiredIndex(meal, i)] are one object
RequiredIndex(meal, i) ==
    CHOOSE j \in MissingPositions(meal) :
        Cardinality({k \in MissingPositions(meal) : k <= j}) = i

\* mutant: the entry is the meal's ingredient object itself
NewEntryAliased(ingredient, m, i) == [ing |-> ingredient, ref |-> <<m, i>>]

\* consolidated[key] = Ingredient(name=..., quantity=..., unit=...): a new object,
\* which no meal refers to (ref is empty)
NewEntry(ingredient, m, i) ==
    [ing |-> MkIngredient(ingredient.name, ingredient.quantity, ingredient.unit),
     ref |-> <<>>]

\* the meals after obj.quantity += quantity on the object of entry: an object of a
\* meal changes in its missing_ingredients and in its recipe's required_ingredients
AddQuantityInMeals(meals0, ms, entry, quantity) ==
    IF entry.ref = <<>> THEN ms
    ELSE LET m == entry.ref[1]
             i == entry.ref[2]
             j == RequiredIndex(meals0[m], i)
         IN  [ms EXCEPT ![m].missing_ingredients[i].quantity = @ + quantity,
                        ![m].recipe.required_ingredients[j].quantity = @ + quantity]

\* one iteration of the inner loop, on missing ingredient i of meal m; the dict is the
\* sequence of its entries in insertion order, st.meals the meals as they are now
Consolidate(st, m, i) ==
    LET ingredient == st.meals[m].missing_ingredients[i]
        consolidated == st.consolidated
    IN  IF \E k \in DOMAIN consolidated : SameKey(consolidated[k].ing, ingredient)
        THEN LET k == CHOOSE k \in DOMAIN consolidated :
                         SameKey(consolidated[k].ing, ingredient)
             IN  [st EXCEPT
                    !.consolidated[k].ing.quantity = @ + ingredient.quantity,
                    !.meals = AddQuantityInMeals(st.meals0, @, consolidated[k],
                                                 ingredient.quantity)]
        ELSE [st EXCEPT !.consolidated = Append(@, NewEntry(ingredient, m, i))]

RECURSIVE ConsolidateMeal(_, _, _)
ConsolidateMeal(st, m, i) ==
    IF i > Len(st.meals[m].missing_ingredients) THEN st
    ELSE ConsolidateMeal(Consolidate(st, m, i), m, i + 1)

RECURSIVE ConsolidateMeals(_, _)
ConsolidateMeals(st, m) ==
    IF m > Len(st.meals) THEN st
    ELSE ConsolidateMeals(ConsolidateMeal(st, m, 1), m + 1)

\* the state at the return of _compile_shopping_list(ms)
CompileEffect(ms) ==
    ConsolidateMeals([meals0 |-> ms, meals |-> ms, consolidated |-> <<>>], 1)

\* list(consolidated.values())
_compile_shopping_list(ms) ==
    LET consolidated == CompileEffect(ms).consolidated
    IN  [k \in DOMAIN consolidated |-> consolidated[k].ing]

\* the plan holds the three meal objects as _compile_shopping_list left them
generate_meal_plan(current_date, breakfast, lunch, dinner) ==
    LET st == CompileEffect(<<breakfast, lunch, dinner>>)
    IN  MkMealPlan(current_date, st.meals[1], st.meals[2], st.meals[3],
                   [k \in DOMAIN st.consolidated |-> st.consolidated[k].ing])

----------------------------------------------------------------------------
(* Scoring specification: one call of _calculate_recipe_score on drawn inputs *)

ScoreRequired ==
    {MkIngredient("rice", 1, "cup"), MkIngredient("rice", 2, "piece"),
     MkIngredient("onion", 1, "cup"), MkIngredient("peanuts", 1, "cup")}

ScoreAvailable ==
    {MkIngredient("rice", 2, "cup"), MkIngredient("onion", 1, "piece")}

ScoreExcluded == {"peanuts", "onion"}

PrepTimes == {0, 30}

MaxPrepTimes == {Unset, Some(0), Some(20)}

ScoreRecipes ==
    {MkRecipe("r", "breakfast", req, pt, dp) :
        req \in SeqUpTo(ScoreRequired, MaxReq),
        pt \in PrepTimes,
        dp \in {<<>>, <<"vegetarian">>}}

ScorePreferences ==
    {MkPreferences(dp, avail, excl, mpt) :
        dp \in {"none", "vegetarian"},
        avail \in SeqUpTo(ScoreAvailable, MaxAvail),
        excl \in SeqUpTo(ScoreExcluded, MaxExcluded),
        mpt \in MaxPrepTimes}

InitAux ==
    /\ raw_ingredients = <<>>
    /\ saved_recipes = <<>>
    /\ ret = None
    /\ plan_log = {}
    /\ calls = <<>>
    /\ mem0 = None

InitIdle ==
    /\ today = 0
    /\ meal_plans = <<>>
    /\ recent_recipe_ids = {}
    /\ last_op = "init"
    /\ available_recipes = <<>>
    /\ preferences = MkPreferences("none", <<>>, <<>>, Unset)
    /\ selected = <<>>
    /\ meals = <<>>
    /\ meal_plan = None
    /\ score = None
    /\ InitAux

InitScore ==
    /\ today = 0
    /\ meal_plans = <<>>
    /\ recent_recipe_ids = {}
    /\ last_op = "init"
    /\ available_recipes \in {<<r>> : r \in ScoreRecipes}
    /\ preferences \in ScorePreferences
    /\ selected = <<>>
    /\ meals = <<>>
    /\ meal_plan = None
    /\ score = None
    /\ InitAux

CalculateRecipeScore ==
    /\ last_op = "init"
    /\ score' = _calculate_recipe_score(available_recipes[1], preferences)
    /\ last_op' = "score"
    /\ UNCHANGED <<auxvars, memvars, available_recipes, preferences, selected, meals, meal_plan>>

NextScore == CalculateRecipeScore

SpecScore == InitScore /\ [][NextScore]_vars

----------------------------------------------------------------------------
(* Matching specification: create_meal called on drawn recipes against one pool *)

\* ingredients differing in name, in unit and in quantity
MatchIngredientSet ==
    {MkIngredient("rice", 1, "cup"), MkIngredient("rice", 2, "cup"),
     MkIngredient("rice", 1, "piece"), MkIngredient("onion", 1, "cup")}

MatchPreferences ==
    {MkPreferences("none", avail, <<>>, Unset) :
        avail \in SeqUpTo(MatchIngredientSet, MaxAvail)}

MatchRecipes ==
    {MkRecipe("r", "breakfast", req, 0, <<>>) :
        req \in SeqUpTo(MatchIngredientSet, MaxReq)}

InitMatch ==
    /\ today = 0
    /\ meal_plans = <<>>
    /\ recent_recipe_ids = {}
    /\ last_op = "init"
    /\ available_recipes = <<>>
    /\ preferences \in MatchPreferences
    /\ selected = <<>>
    /\ meals = <<>>
    /\ meal_plan = None
    /\ score = None
    /\ InitAux

CreateMeal ==
    /\ \E recipe \in MatchRecipes :
            meals' = <<create_meal(recipe, preferences.available_ingredients)>>
    /\ last_op' = "create_meal"
    /\ UNCHANGED <<auxvars, memvars, available_recipes, preferences, selected, meal_plan, score>>

NextMatch == CreateMeal

SpecMatch == InitMatch /\ [][NextMatch]_vars

----------------------------------------------------------------------------
(* Claims about create_meal *)

\* r is an order-preserving interleaving of u and m
RECURSIVE IsMerge(_, _, _)
IsMerge(r, u, m) ==
    IF r = <<>> THEN u = <<>> /\ m = <<>>
    ELSE \/ (u /= <<>> /\ Head(u) = Head(r) /\ IsMerge(Tail(r), Tail(u), m))
         \/ (m /= <<>> /\ Head(m) = Head(r) /\ IsMerge(Tail(r), u, Tail(m)))

\* C5: used_ingredients and missing_ingredients partition required_ingredients by
\* position: every required occurrence is in exactly one list once, nothing else is in
\* either list, and both lists keep the order of required_ingredients.
C5_Partition ==
    \A i \in DOMAIN meals :
        /\ Len(meals[i].used_ingredients) + Len(meals[i].missing_ingredients)
              = Len(meals[i].recipe.required_ingredients)
        /\ IsMerge(meals[i].recipe.required_ingredients,
                   meals[i].used_ingredients, meals[i].missing_ingredients)

\* C5 witness: a meal with a used and a missing ingredient whose pool holds two items
\* that both satisfy the used one
C5_Witness ==
    /\ last_op = "create_meal"
    /\ meals[1].used_ingredients /= <<>>
    /\ meals[1].missing_ingredients /= <<>>
    /\ \E j, k \in DOMAIN preferences.available_ingredients :
          /\ j < k
          /\ IngredientSatisfies(meals[1].used_ingredients[1],
                                 preferences.available_ingredients[j])
          /\ IngredientSatisfies(meals[1].used_ingredients[1],
                                 preferences.available_ingredients[k])

PoolSatisfies(required_ing) ==
    \E j \in DOMAIN preferences.available_ingredients :
        /\ preferences.available_ingredients[j].name = required_ing.name
        /\ preferences.available_ingredients[j].unit = required_ing.unit
        /\ preferences.available_ingredients[j].quantity >= required_ing.quantity

UsedIffSatisfied ==
    \A i \in DOMAIN meals :
        \A k \in DOMAIN meals[i].recipe.required_ingredients :
            LET ing == meals[i].recipe.required_ingredients[k]
            IN  /\ (ing \in Range(meals[i].used_ingredients)) <=> PoolSatisfies(ing)
                /\ (ing \in Range(meals[i].missing_ingredients)) <=> ~PoolSatisfies(ing)

\* C6: a required ingredient is in used_ingredients iff the whole pool holds an item of
\* the same name and unit with quantity >= the required one, and the pool is never
\* changed by a call, so one item serves several requirements and later calls.
C6_UsedIffPoolSatisfies ==
    /\ []UsedIffSatisfied
    /\ [][last_op' = "create_meal" => preferences' = preferences]_vars

\* C6 witness: two required ingredients of one call both served by a one-item pool
C6_Witness ==
    /\ last_op = "create_meal"
    /\ Len(preferences.available_ingredients) = 1
    /\ Len(meals[1].used_ingredients) = 2
    /\ meals[1].used_ingredients[1] /= meals[1].used_ingredients[2]

----------------------------------------------------------------------------
(* Shopping-list specification: generate_meal_plan on three drawn meals *)

ShopIngredients ==
    {MkIngredient("sugar", 1, "cup"), MkIngredient("sugar", 2, "piece"),
     MkIngredient("rice", 1, "cup")}

\* the meal create_meal builds for a recipe when nothing is available
ShopMeal(id, meal_type, req) ==
    create_meal(MkRecipe(id, meal_type, req, 0, <<>>), <<>>)

InitShop ==
    /\ today = 0
    /\ meal_plans = <<>>
    /\ recent_recipe_ids = {}
    /\ last_op = "init"
    /\ available_recipes = <<>>
    /\ preferences = MkPreferences("none", <<>>, <<>>, Unset)
    /\ selected = <<>>
    /\ meals \in {<<ShopMeal("b", "breakfast", rb), ShopMeal("l", "lunch", rl),
                    ShopMeal("d", "dinner", rd)>> :
                        rb \in SeqUpTo(ShopIngredients, MaxMissing),
                        rl \in SeqUpTo(ShopIngredients, MaxMissing),
                        rd \in SeqUpTo(ShopIngredients, MaxMissing)}
    /\ meal_plan = None
    /\ score = None
    /\ InitAux

\* generate_meal_plan on the three meals, and once more on the same meals; ret is
\* the plan the call before returned
GenerateMealPlan ==
    /\ last_op = "init" \/ (last_op = "generate_meal_plan" /\ ret = None)
    /\ meal_plan' = generate_meal_plan(today, meals[1], meals[2], meals[3])
    /\ meals' = <<meal_plan'.breakfast, meal_plan'.lunch, meal_plan'.dinner>>
    /\ ret' = meal_plan
    /\ last_op' = "generate_meal_plan"
    /\ UNCHANGED <<memvars, available_recipes, preferences, selected, score,
                   raw_ingredients, saved_recipes, plan_log, calls, mem0>>

NextShop == GenerateMealPlan

SpecShop == InitShop /\ [][NextShop]_vars

----------------------------------------------------------------------------
(* Claims about the shopping list *)

\* every missing entry of the three meals, breakfast first
AllMissing ==
    meals[1].missing_ingredients \o meals[2].missing_ingredients
        \o meals[3].missing_ingredients

KeyOf(ing) == <<ing.name, ing.unit>>

RECURSIVE SumQuantity(_, _)
SumQuantity(ings, key) ==
    IF ings = <<>> THEN 0
    ELSE (IF KeyOf(Head(ings)) = key THEN Head(ings).quantity ELSE 0)
         + SumQuantity(Tail(ings), key)

FirstOccurrence(ings, key) ==
    CHOOSE i \in DOMAIN ings :
        KeyOf(ings[i]) = key /\ \A j \in 1..(i - 1) : KeyOf(ings[j]) /= key

\* C10: the shopping list has exactly one entry per distinct (name, unit) key of the
\* meals' missing ingredients, each entry's quantity is the sum over that key, same
\* names with different units stay apart, and entries are in first-occurrence order.
C10_ShoppingList ==
    last_op = "generate_meal_plan" =>
        LET sl == meal_plan.shopping_list
        IN  /\ \A i, j \in DOMAIN sl : i /= j => KeyOf(sl[i]) /= KeyOf(sl[j])
            /\ {KeyOf(sl[i]) : i \in DOMAIN sl}
                  = {KeyOf(AllMissing[i]) : i \in DOMAIN AllMissing}
            /\ \A i \in DOMAIN sl :
                  sl[i].quantity = SumQuantity(AllMissing, KeyOf(sl[i]))
            /\ \A i, j \in DOMAIN sl :
                  i < j => FirstOccurrence(AllMissing, KeyOf(sl[i]))
                             < FirstOccurrence(AllMissing, KeyOf(sl[j]))

\* C10 witness: breakfast and dinner each miss 1 cup sugar, lunch misses sugar by the
\* piece first; the list is <<2 cup sugar, 2 piece sugar>>
C10_Witness ==
    /\ last_op = "generate_meal_plan"
    /\ meals[1].missing_ingredients = <<MkIngredient("sugar", 1, "cup")>>
    /\ meals[2].missing_ingredients = <<MkIngredient("sugar", 2, "piece")>>
    /\ meals[3].missing_ingredients = <<MkIngredient("sugar", 1, "cup")>>
    /\ meal_plan.shopping_list
          = <<MkIngredient("sugar", 2, "cup"), MkIngredient("sugar", 2, "piece")>>

\* C18: generate_meal_plan leaves its input meals as they were, the quantities of
\* their missing_ingredients and of their recipes' required_ingredients included, also
\* when one (name, unit) key is summed across meals; a second call on the same three
\* meals returns an equal shopping list.
C18_MealsUnchanged ==
    [][last_op' = "generate_meal_plan" =>
          /\ meals' = meals
          /\ meal_plan'.breakfast = meals[1]
          /\ meal_plan'.lunch = meals[2]
          /\ meal_plan'.dinner = meals[3]
          /\ meal_plan'.shopping_list = _compile_shopping_list(meals)
          /\ last_op = "generate_meal_plan" =>
                meal_plan'.shopping_list = meal_plan.shopping_list
      ]_vars

\* C18 witness: the second call has returned; breakfast and dinner both miss 1 cup
\* sugar, which the list sums to 2 cup while both meals still say 1
C18_Witness ==
    /\ last_op = "generate_meal_plan"
    /\ ret /= None
    /\ ret.shopping_list = meal_plan.shopping_list
    /\ meals[1].missing_ingredients = <<MkIngredient("sugar", 1, "cup")>>
    /\ meals[1].recipe.required_ingredients = <<MkIngredient("sugar", 1, "cup")>>
    /\ meals[3].missing_ingredients = <<MkIngredient("sugar", 1, "cup")>>
    /\ MkIngredient("sugar", 2, "cup") \in Range(meal_plan.shopping_list)

----------------------------------------------------------------------------
(* Planning runs (python-version main): select_meals, create_meal for the three  *)
(* slots, generate_meal_plan, store_meal_plan, repeated over one memory on drawn *)
(* candidates and preferences.                                                   *)

SelectCatalog ==
    {MkRecipe("B1", "breakfast", <<MkIngredient("rice", 1, "cup")>>, 0, <<>>),
     MkRecipe("B2", "breakfast", <<MkIngredient("onion", 1, "cup")>>, 0,
              <<"vegetarian">>),
     MkRecipe("B3", "breakfast", <<MkIngredient("onion", 2, "piece")>>, 30,
              <<"vegetarian">>),
     MkRecipe("L1", "lunch", <<MkIngredient("rice", 2, "cup")>>, 0, <<>>),
     MkRecipe("D1", "dinner", <<>>, 30, <<"vegetarian">>)}

SelectPreferences ==
    {MkPreferences("none", <<MkIngredient("rice", 2, "cup")>>, <<>>, Unset),
     MkPreferences("vegetarian", <<>>, <<>>, Some(20)),
     MkPreferences("none", <<MkIngredient("onion", 1, "cup")>>, <<"onion">>, Unset)}

InitRun ==
    /\ today = 0
    /\ meal_plans = <<>>
    /\ recent_recipe_ids = {}
    /\ last_op = "init"
    /\ available_recipes \in SeqUpTo(SelectCatalog, MaxCandidates)
    /\ preferences \in SelectPreferences
    /\ selected = <<>>
    /\ meals = <<>>
    /\ meal_plan = None
    /\ score = None
    /\ InitAux

\* mutant: selecting a recipe marks it recently used
RunSelectMealsMarksRecent ==
    /\ last_op \in {"init", "store_meal_plan"}
    /\ selected' = select_meals(available_recipes, preferences, recent_recipe_ids)
    /\ recent_recipe_ids' =
          recent_recipe_ids \cup {selected'[s].id : s \in {t \in 1..3 : selected'[t] /= None}}
    /\ last_op' = "select_meals"
    /\ UNCHANGED <<auxvars, today, meal_plans, available_recipes, preferences, meals,
                   meal_plan, score>>

RunSelectMeals ==
    /\ last_op \in {"init", "store_meal_plan"}
    /\ selected' = select_meals(available_recipes, preferences, recent_recipe_ids)
    /\ last_op' = "select_meals"
    /\ UNCHANGED <<auxvars, memvars, available_recipes, preferences, meals, meal_plan, score>>

\* create_meal(None, ...) reads None.required_ingredients
RunCreateMealRaises ==
    /\ last_op = "select_meals"
    /\ \E s \in 1..3 : selected[s] = None
    /\ last_op' = "AttributeError"
    /\ UNCHANGED <<auxvars, memvars, available_recipes, preferences, selected, meals, meal_plan,
                   score>>

RunCreateMeals ==
    /\ last_op = "select_meals"
    /\ \A s \in 1..3 : selected[s] /= None
    /\ meals' = [s \in 1..3 |->
                    create_meal(selected[s], preferences.available_ingredients)]
    /\ last_op' = "create_meal"
    /\ UNCHANGED <<auxvars, memvars, available_recipes, preferences, selected, meal_plan, score>>

RunGenerateMealPlan ==
    /\ last_op = "create_meal"
    /\ meal_plan' = generate_meal_plan(today, meals[1], meals[2], meals[3])
    /\ meals' = <<meal_plan'.breakfast, meal_plan'.lunch, meal_plan'.dinner>>
    /\ last_op' = "generate_meal_plan"
    /\ UNCHANGED <<auxvars, memvars, available_recipes, preferences, selected, score>>

RunStoreMealPlan ==
    /\ last_op = "generate_meal_plan"
    /\ LET m == store_meal_plan(meal_plans, recent_recipe_ids, meal_plan, today)
       IN  /\ meal_plans' = m.meal_plans
           /\ recent_recipe_ids' = m.recent_recipe_ids
    /\ last_op' = "store_meal_plan"
    /\ UNCHANGED <<auxvars, today, available_recipes, preferences, selected, meals, meal_plan,
                   score>>

NextRun ==
    \/ RunSelectMeals
    \/ RunCreateMealRaises
    \/ RunCreateMeals
    \/ RunGenerateMealPlan
    \/ RunStoreMealPlan

SpecRun == InitRun /\ [][NextRun]_vars

----------------------------------------------------------------------------
(* Planning runs over several days: the runs of SpecRun over one memory while    *)
(* the wall-clock date advances between runs; plan_log keeps every (date, id) a  *)
(* run has stored.                                                               *)

DayCandidates ==
    {c \in SeqUpTo(SelectCatalog, MaxCandidates) : Cardinality(Range(c)) = Len(c)}

InitDays ==
    /\ today = 0
    /\ meal_plans = <<>>
    /\ recent_recipe_ids = {}
    /\ last_op = "init"
    /\ available_recipes \in DayCandidates
    /\ preferences \in SelectPreferences
    /\ selected = <<>>
    /\ meals = <<>>
    /\ meal_plan = None
    /\ score = None
    /\ InitAux

DayStoreMealPlan ==
    /\ last_op = "generate_meal_plan"
    /\ LET m == store_meal_plan(meal_plans, recent_recipe_ids, meal_plan, today)
       IN  /\ meal_plans' = m.meal_plans
           /\ recent_recipe_ids' = m.recent_recipe_ids
    /\ plan_log' = plan_log \cup {<<meal_plan.date, id>> : id \in PlanIds(meal_plan)}
    /\ last_op' = "store_meal_plan"
    /\ UNCHANGED <<today, available_recipes, preferences, selected, meals, meal_plan,
                   score, raw_ingredients, saved_recipes, ret, calls, mem0>>

\* the next run happens on a later day
DayTick ==
    /\ last_op = "store_meal_plan"
    /\ Cardinality(DOMAIN meal_plans) < MaxPlans
    /\ \E d \in 0..MaxDay : d > today /\ today' = d
    /\ UNCHANGED <<auxvars, meal_plans, recent_recipe_ids, last_op, available_recipes,
                   preferences, selected, meals, meal_plan, score>>

NextDays ==
    \/ RunSelectMeals
    \/ RunCreateMealRaises
    \/ RunCreateMeals
    \/ RunGenerateMealPlan
    \/ DayStoreMealPlan
    \/ DayTick

SpecDays == InitDays /\ [][NextDays]_vars

\* the ids some run stored in a plan dated within the trailing 7 days
UsedInTrailingDays ==
    {e[2] : e \in {x \in plan_log : x[1] >= today - RecencyDays /\ x[1] <= today}}

\* C14: in consecutive planning runs on one day over one candidate list, a run never
\* selects a recipe that an earlier run stored in a plan dated today while the slot
\* still has a candidate that no plan of the trailing 7 days used.
C14_NoSameDayRepeat ==
    last_op = "select_meals" =>
        \A s \in 1..3 :
            (/\ selected[s] /= None
             /\ \E i \in DOMAIN available_recipes :
                   /\ available_recipes[i].meal_type = MealTypes[s]
                   /\ available_recipes[i].id \notin UsedInTrailingDays)
            => <<today, selected[s].id>> \notin plan_log

----------------------------------------------------------------------------
(* MemoryModule.save_recipe: saved_recipes maps a recipe id to the recipe and    *)
(* the time it was saved; the clock datetime.now() is the variable today.        *)

is_recipe_saved(saved, recipe_id) == recipe_id \in DOMAIN saved

\* self.saved_recipes[recipe.id] = {"recipe": recipe, "saved_at": datetime.now()}
PutSaved(saved, recipe, now) ==
    [i \in DOMAIN saved \cup {recipe.id} |->
        IF i = recipe.id THEN [recipe |-> recipe, saved_at |-> now] ELSE saved[i]]

\* mutant: an id already saved is written again
save_recipe_overwrites(saved, recipe, now) ==
    [saved_recipes |-> PutSaved(saved, recipe, now),
     ret |-> ~is_recipe_saved(saved, recipe.id)]

save_recipe(saved, recipe, now) ==
    IF is_recipe_saved(saved, recipe.id)
    THEN [saved_recipes |-> saved, ret |-> FALSE]
    ELSE [saved_recipes |-> PutSaved(saved, recipe, now), ret |-> TRUE]

\* the recipes of the generated batches: two of them carry the same id
SaveCatalog ==
    {MkRecipe("B1", "breakfast", <<MkIngredient("rice", 1, "cup")>>, 0, <<>>),
     MkRecipe("B1", "breakfast", <<MkIngredient("onion", 1, "cup")>>, 30,
              <<"vegetarian">>),
     MkRecipe("L1", "lunch", <<MkIngredient("rice", 2, "cup")>>, 0, <<>>)}

InitSave == InitIdle

\* the save-recipe endpoint hands one recipe of the last batch to memory.save_recipe;
\* selected holds that argument
SaveRecipe ==
    /\ \E recipe \in SaveCatalog :
          /\ selected' = <<recipe>>
          /\ saved_recipes' = save_recipe(saved_recipes, recipe, today).saved_recipes
          /\ ret' = save_recipe(saved_recipes, recipe, today).ret
    /\ last_op' = "save_recipe"
    /\ UNCHANGED <<memvars, available_recipes, preferences, meals, meal_plan, score,
                   raw_ingredients, plan_log, calls, mem0>>

\* datetime.now() moves forward between calls
SaveTick ==
    /\ \E t \in 0..MaxDay : t > today /\ today' = t
    /\ last_op' = "tick"
    /\ UNCHANGED <<auxvars, meal_plans, recent_recipe_ids, available_recipes, preferences,
                   selected, meals, meal_plan, score>>

NextSave == SaveRecipe \/ SaveTick

SpecSave == InitSave /\ [][NextSave]_vars

\* C15: save_recipe stores the recipe with the current time and returns True only
\* when its id is not saved yet; for an id already saved it returns False and leaves
\* saved_recipes, the stored recipe and its saved_at, as they were, so every id keeps
\* the first recipe saved under it.
C15_FirstSaveWins ==
    [][/\ last_op' = "save_recipe" =>
            LET recipe == selected'[1]
            IN  IF recipe.id \in DOMAIN saved_recipes
                THEN ret' = FALSE /\ saved_recipes' = saved_recipes
                ELSE /\ ret' = TRUE
                     /\ DOMAIN saved_recipes' = DOMAIN saved_recipes \cup {recipe.id}
                     /\ saved_recipes'[recipe.id] = [recipe |-> recipe, saved_at |-> today]
       /\ \A id \in DOMAIN saved_recipes :
             id \in DOMAIN saved_recipes' /\ saved_recipes'[id] = saved_recipes[id]
      ]_vars

\* C15 witness: a later call with another recipe of a saved id was refused
C15_Witness ==
    /\ last_op = "save_recipe"
    /\ ret = FALSE
    /\ saved_recipes[selected[1].id].recipe /= selected[1]
    /\ saved_recipes[selected[1].id].saved_at < today
    /\ Cardinality(DOMAIN saved_recipes) = 2

----------------------------------------------------------------------------
(* Memory specification: store_meal_plan called with plans of any date while the *)
(* wall-clock date advances.                                                     *)

Dates == 0..MaxDay

CatalogOf(meal_type) == {r \in SelectCatalog : r.meal_type = meal_type}

\* the plans a planning run can hand to store_meal_plan, for the given dates and
\* breakfast recipes
PlansOf(dates, breakfast_ids) ==
    {generate_meal_plan(d, create_meal(b, <<>>), create_meal(l, <<>>),
                        create_meal(dn, <<>>)) :
        d \in dates, b \in {r \in CatalogOf("breakfast") : r.id \in breakfast_ids},
        l \in CatalogOf("lunch"), dn \in CatalogOf("dinner")}

StorablePlans == PlansOf(Dates, {"B1", "B2"})

Init == InitIdle

\* date.today() moves forward between calls
Tick ==
    /\ \E d \in Dates : d > today /\ today' = d
    /\ last_op' = "tick"
    /\ UNCHANGED <<auxvars, meal_plans, recent_recipe_ids, available_recipes, preferences,
                   selected, meals, meal_plan, score>>

StoreMealPlan ==
    /\ \E plan \in StorablePlans :
          /\ plan.date \in DOMAIN meal_plans \/ Cardinality(DOMAIN meal_plans) < MaxPlans
          /\ LET m == store_meal_plan(meal_plans, recent_recipe_ids, plan, today)
             IN  /\ meal_plans' = m.meal_plans
                 /\ recent_recipe_ids' = m.recent_recipe_ids
          /\ meal_plan' = plan
    /\ last_op' = "store_meal_plan"
    /\ UNCHANGED <<auxvars, today, available_recipes, preferences, selected, meals, score>>

Next == Tick \/ StoreMealPlan

Spec == Init /\ [][Next]_vars

----------------------------------------------------------------------------
(* Two store_meal_plan calls running concurrently over one MemoryModule, one     *)
(* statement at a time. calls holds the insertion order of the meal_plans dict   *)
(* and, per call, its position and the locals of _cleanup_old_recipes; mem0 is   *)
(* the memory the two calls started from.                                        *)

\* the key order of the dict after self.meal_plans[d] = ...
PutOrder(order, d) == IF d \in Range(order) THEN order ELSE Append(order, d)

\* the memory after storing the plans of stored one after the other on day now
RECURSIVE StoreAll(_, _, _)
StoreAll(mem, stored, now) ==
    IF stored = <<>> THEN mem
    ELSE LET m == store_meal_plan(mem.meal_plans, mem.recent_recipe_ids, Head(stored), now)
         IN  StoreAll([meal_plans |-> m.meal_plans,
                       recent_recipe_ids |-> m.recent_recipe_ids,
                       order |-> PutOrder(mem.order, Head(stored).date)],
                      Tail(stored), now)

\* plans stored on day 0, before the two calls
PrePlans == PlansOf({0, 1}, {"B1", "B2"})

\* the plans the two calls store on day MaxDay
CallPlans == PlansOf({0, 1, MaxDay}, {"B1", "B3"})

MkCall(plan) ==
    [pc |-> "write", plan |-> plan, old_recipe_ids |-> {}, it |-> 0, used |-> 0]

InitConc ==
    /\ today = MaxDay
    /\ \E stored \in SeqUpTo(PrePlans, MaxPlans), a \in CallPlans, b \in CallPlans :
          LET m == StoreAll([meal_plans |-> <<>>, recent_recipe_ids |-> {}, order |-> <<>>],
                            stored, 0)
          IN  /\ meal_plans = m.meal_plans
              /\ recent_recipe_ids = m.recent_recipe_ids
              /\ mem0 = [meal_plans |-> m.meal_plans,
                         recent_recipe_ids |-> m.recent_recipe_ids]
              /\ calls = [order |-> m.order, overlapped |-> FALSE,
                          call |-> <<MkCall(a), MkCall(b)>>]
    /\ last_op = "init"
    /\ available_recipes = <<>>
    /\ preferences = MkPreferences("none", <<>>, <<>>, Unset)
    /\ selected = <<>>
    /\ meals = <<>>
    /\ meal_plan = None
    /\ score = None
    /\ raw_ingredients = <<>>
    /\ saved_recipes = <<>>
    /\ ret = None
    /\ plan_log = {}

Running(call) == call.pc \notin {"write", "done", "RuntimeError"}

\* calls after call c moved to next_call; order is the dict's key order afterwards
StepCall(c, next_call, order) ==
    [order |-> order,
     overlapped |-> calls.overlapped \/ Running(calls.call[3 - c]),
     call |-> [calls.call EXCEPT ![c] = next_call]]

concframe ==
    <<today, available_recipes, preferences, selected, meals, meal_plan, score,
      raw_ingredients, saved_recipes, ret, plan_log, mem0>>

\* self.meal_plans[meal_plan.date] = meal_plan
ConcWrite(c) ==
    LET call == calls.call[c]
    IN  /\ call.pc = "write"
        /\ meal_plans' = PutPlan(meal_plans, call.plan)
        /\ calls' = StepCall(c, [call EXCEPT !.pc = "add_breakfast"],
                             PutOrder(calls.order, call.plan.date))
        /\ last_op' = "write"
        /\ UNCHANGED <<recent_recipe_ids, concframe>>

\* self.recent_recipe_ids.add(...), one statement per slot
ConcAdd(c) ==
    LET call == calls.call[c]
    IN  /\ call.pc \in {"add_breakfast", "add_lunch", "add_dinner"}
        /\ recent_recipe_ids' = recent_recipe_ids \cup
              {CASE call.pc = "add_breakfast" -> call.plan.breakfast.recipe.id
                 [] call.pc = "add_lunch" -> call.plan.lunch.recipe.id
                 [] call.pc = "add_dinner" -> call.plan.dinner.recipe.id}
        /\ calls' = StepCall(c, [call EXCEPT !.pc =
                                   CASE call.pc = "add_breakfast" -> "add_lunch"
                                     [] call.pc = "add_lunch" -> "add_dinner"
                                     [] call.pc = "add_dinner" -> "scan"],
                             calls.order)
        /\ last_op' = "add"
        /\ UNCHANGED <<meal_plans, concframe>>

\* old_recipe_ids = set(); the for statement takes an iterator over meal_plans.items()
ConcScanStart(c) ==
    LET call == calls.call[c]
    IN  /\ call.pc = "scan"
        /\ calls' = StepCall(c, [call EXCEPT !.pc = "next", !.old_recipe_ids = {},
                                             !.it = 1, !.used = Len(calls.order)],
                             calls.order)
        /\ last_op' = "scan"
        /\ UNCHANGED <<meal_plans, recent_recipe_ids, concframe>>

\* one turn of the loop: the next item and the body on it, or the end of the loop
ConcScanNext(c) ==
    LET call == calls.call[c]
        cutoff_date == today - RecencyDays
    IN  /\ call.pc = "next"
        /\ Len(calls.order) = call.used
        /\ calls' =
              IF call.it > Len(calls.order)
              THEN StepCall(c, [call EXCEPT !.pc = "subtract"], calls.order)
              ELSE LET plan_date == calls.order[call.it]
                   IN  StepCall(c, [call EXCEPT
                          !.it = call.it + 1,
                          !.old_recipe_ids =
                              IF plan_date < cutoff_date
                              THEN call.old_recipe_ids \cup PlanIds(meal_plans[plan_date])
                              ELSE call.old_recipe_ids],
                          calls.order)
        /\ last_op' = "next"
        /\ UNCHANGED <<meal_plans, recent_recipe_ids, concframe>>

\* the dict gained a key since the iterator was taken: the next turn raises
\* RuntimeError (dictionary changed size during iteration) and the call ends
ConcScanRaises(c) ==
    LET call == calls.call[c]
    IN  /\ call.pc = "next"
        /\ Len(calls.order) /= call.used
        /\ calls' = StepCall(c, [call EXCEPT !.pc = "RuntimeError"], calls.order)
        /\ last_op' = "RuntimeError"
        /\ UNCHANGED <<meal_plans, recent_recipe_ids, concframe>>

\* mutant: the ids of the call's own plan are never subtracted
ConcSubtractKeepsOwn(c) ==
    LET call == calls.call[c]
    IN  /\ call.pc = "subtract"
        /\ recent_recipe_ids' =
              recent_recipe_ids \ (call.old_recipe_ids \ PlanIds(call.plan))
        /\ calls' = StepCall(c, [call EXCEPT !.pc = "done"], calls.order)
        /\ last_op' = "subtract"
        /\ UNCHANGED <<meal_plans, concframe>>

\* self.recent_recipe_ids -= old_recipe_ids
ConcSubtract(c) ==
    LET call == calls.call[c]
    IN  /\ call.pc = "subtract"
        /\ recent_recipe_ids' = recent_recipe_ids \ call.old_recipe_ids
        /\ calls' = StepCall(c, [call EXCEPT !.pc = "done"], calls.order)
        /\ last_op' = "subtract"
        /\ UNCHANGED <<meal_plans, concframe>>

NextConc ==
    \E c \in 1..2 :
        \/ ConcWrite(c)
        \/ ConcAdd(c)
        \/ ConcScanStart(c)
        \/ ConcScanNext(c)
        \/ ConcScanRaises(c)
        \/ ConcSubtract(c)

SpecConc == InitConc /\ [][NextConc]_vars

\* the memory after the two calls ran one after the other from mem0
SerialOutcome(first, second) ==
    LET m == store_meal_plan(mem0.meal_plans, mem0.recent_recipe_ids, first, today)
    IN  store_meal_plan(m.meal_plans, m.recent_recipe_ids, second, today)

BothEnded == \A c \in 1..2 : calls.call[c].pc \in {"done", "RuntimeError"}

Memory == [meal_plans |-> meal_plans, recent_recipe_ids |-> recent_recipe_ids]

IsSerial ==
    \/ Memory = SerialOutcome(calls.call[1].plan, calls.call[2].plan)
    \/ Memory = SerialOutcome(calls.call[2].plan, calls.call[1].plan)

\* every id the calls started with or added, less the ids of the old plans held at
\* the end
MergedRecent ==
    (mem0.recent_recipe_ids \cup PlanIds(calls.call[1].plan)
        \cup PlanIds(calls.call[2].plan)) \ old_recipe_ids(meal_plans, today)

\* C16: store_meal_plan is not safe under interleaving. Two calls that run one after
\* the other end in the serial outcome of that order; two calls whose statements
\* interleave always end with the meal_plans of a serial order, but their
\* recent_recipe_ids is either that of a serial order or, in a state no serial order
\* produces, everything started with or added less the ids of the old plans still held.
C16_InterleavingOutcomes ==
    BothEnded =>
        /\ \/ meal_plans = SerialOutcome(calls.call[1].plan, calls.call[2].plan).meal_plans
           \/ meal_plans = SerialOutcome(calls.call[2].plan, calls.call[1].plan).meal_plans
        /\ IsSerial \/ recent_recipe_ids = MergedRecent
        /\ ~calls.overlapped => IsSerial

\* C16 witness: both calls ran to their end over interleaved statements and the
\* memory is the outcome of neither serial order
C16_Witness ==
    /\ \A c \in 1..2 : calls.call[c].pc = "done"
    /\ calls.overlapped
    /\ ~IsSerial

----------------------------------------------------------------------------
(* Claims about the recency memory *)

RecipeIds == {r.id : r \in SelectCatalog}

\* the dates of the stored plans that reference id
ReferencingDates(id) == {d \in DOMAIN meal_plans : id \in PlanIds(meal_plans[d])}

\* C1: a store_meal_plan call removes from recent_recipe_ids only ids referenced by
\* plans dated before cutoff = today - 7, and an id also referenced by a stored plan
\* dated on or after the cutoff stays in recent_recipe_ids.
C1_EvictionKeepsRecentlyPlanned ==
    [][last_op' = "store_meal_plan" =>
        LET cutoff == today' - RecencyDays
            before == recent_recipe_ids \cup PlanIds(meal_plan')
        IN  /\ \A id \in before \ recent_recipe_ids' :
                  \E d \in DOMAIN meal_plans' :
                      d < cutoff /\ id \in PlanIds(meal_plans'[d])
            /\ \A id \in before :
                  (\E d \in DOMAIN meal_plans' :
                      d >= cutoff /\ id \in PlanIds(meal_plans'[d]))
                  => id \in recent_recipe_ids']_vars

\* C7: right after a store_meal_plan call on date T, an id whose only referencing
\* stored plan is dated T-8 is not recent, and one whose only referencing stored plan
\* is dated T-6 (or T-7) is recent.
C7_RecencyWindow ==
    last_op = "store_meal_plan" =>
        \A id \in RecipeIds :
            /\ ReferencingDates(id) = {today - 8} => id \notin recent_recipe_ids
            /\ ReferencingDates(id) = {today - 6} => id \in recent_recipe_ids
            /\ ReferencingDates(id) = {today - 7} => id \in recent_recipe_ids

\* C11: get_past_meal_plan(d) returns the plan stored last with date d and is absent
\* only for a date never stored: a store_meal_plan call makes its plan the one returned
\* for its date, keeps every other date's plan, and nothing else (eviction included)
\* changes or removes an entry of meal_plans.
C11_PastPlanIsLastStored ==
    [][/\ last_op' = "store_meal_plan" =>
            /\ get_past_meal_plan(meal_plans', meal_plan'.date) = meal_plan'
            /\ DOMAIN meal_plans' = DOMAIN meal_plans \cup {meal_plan'.date}
            /\ \A d \in Dates \ {meal_plan'.date} :
                  get_past_meal_plan(meal_plans', d) = get_past_meal_plan(meal_plans, d)
       /\ last_op' /= "store_meal_plan" => meal_plans' = meal_plans
       /\ \A d \in Dates :
             (get_past_meal_plan(meal_plans', d) = None) <=> (d \notin DOMAIN meal_plans')
      ]_vars

\* C11 witness: after a call that overwrote nothing of it, a plan dated before the
\* cutoff is still returned although eviction has pruned all its ids
C11_Witness ==
    /\ last_op = "store_meal_plan"
    /\ \E d \in DOMAIN meal_plans :
          /\ d < today - RecencyDays
          /\ d /= meal_plan.date
          /\ get_past_meal_plan(meal_plans, d) /= None
          /\ PlanIds(meal_plans[d]) \cap recent_recipe_ids = {}
    /\ recent_recipe_ids /= {}

----------------------------------------------------------------------------
(* Claims about selection *)

SlotOptions(s) == Options(available_recipes, MealTypes[s])

NonRecent(s) ==
    {i \in DOMAIN SlotOptions(s) : SlotOptions(s)[i].id \notin recent_recipe_ids}

ScoreOf(recipe) == _calculate_recipe_score(recipe, preferences)

\* C2: when no candidate has the slot's meal_type, selection ends in an error outcome
\* and never hands a None recipe back to the caller.
C2_NoNoneReturned ==
    last_op = "select_meals" =>
        \A s \in 1..3 : SlotOptions(s) = <<>> => selected[s] /= None

\* C3: a slot with a non-recent candidate gets a non-recent candidate of that slot
\* whose score is maximal among the non-recent ones, the earliest of those in the list.
C3_BestNonRecent ==
    last_op = "select_meals" =>
        \A s \in 1..3 :
            NonRecent(s) /= {} =>
                \E i \in NonRecent(s) :
                    /\ selected[s] = SlotOptions(s)[i]
                    /\ \A j \in NonRecent(s) :
                          ~FracGT(ScoreOf(SlotOptions(s)[j]), ScoreOf(SlotOptions(s)[i]))
                    /\ \A j \in NonRecent(s) :
                          j < i => FracGT(ScoreOf(SlotOptions(s)[i]),
                                          ScoreOf(SlotOptions(s)[j]))

\* C3 witness: three breakfast candidates, the first recent and skipped, the other two
\* tied, and the earlier of the two selected
C3_Witness ==
    /\ last_op = "select_meals"
    /\ Len(SlotOptions(1)) = 3
    /\ NonRecent(1) = {2, 3}
    /\ SlotOptions(1)[2] /= SlotOptions(1)[3]
    /\ FracEQ(ScoreOf(SlotOptions(1)[2]), ScoreOf(SlotOptions(1)[3]))
    /\ FracGT(ScoreOf(SlotOptions(1)[1]), ScoreOf(SlotOptions(1)[2]))
    /\ selected[1] = SlotOptions(1)[2]

\* C4: a slot with candidates that are all recent gets its first candidate in list
\* order, whatever the scores.
C4_FallbackFirst ==
    last_op = "select_meals" =>
        \A s \in 1..3 :
            (SlotOptions(s) /= <<>> /\ NonRecent(s) = {}) =>
                selected[s] = SlotOptions(s)[1]

\* C4 witness: two breakfast candidates, both recent, the first with the lower score,
\* and the first selected
C4_Witness ==
    /\ last_op = "select_meals"
    /\ Len(SlotOptions(1)) = 2
    /\ NonRecent(1) = {}
    /\ FracGT(ScoreOf(SlotOptions(1)[2]), ScoreOf(SlotOptions(1)[1]))
    /\ selected[1] = SlotOptions(1)[1]

\* C17: after any sequence of store_meal_plan calls, overwriting ones included, every
\* id in recent_recipe_ids is a breakfast, lunch or dinner recipe id of a plan held in
\* meal_plans and dated on or after the cutoff of the last call.
C17_RecentIdsHaveHeldPlan ==
    last_op = "store_meal_plan" =>
        \A id \in recent_recipe_ids :
            \E d \in DOMAIN meal_plans :
                d >= today - RecencyDays /\ id \in PlanIds(meal_plans[d])

\* C12: only store_meal_plan changes meal_plans and recent_recipe_ids; select_meals
\* (with the scoring and recency tests it makes), create_meal and generate_meal_plan
\* leave them as they are, and the three slots of one select_meals call are chosen
\* against the same recent_recipe_ids.
C12_OnlyStoreChangesRecency ==
    [][/\ last_op' /= "store_meal_plan" =>
            (meal_plans' = meal_plans /\ recent_recipe_ids' = recent_recipe_ids)
       /\ last_op' = "select_meals" =>
            \A s \in 1..3 :
                selected'[s] = _select_best_recipe(
                                  Options(available_recipes, MealTypes[s]),
                                  preferences, recent_recipe_ids)
      ]_vars

\* C12 witness: a later run has selected, matched and aggregated recipes that are not
\* recent while the memory still holds exactly the ids of the plan stored before
C12_Witness ==
    /\ last_op = "generate_meal_plan"
    /\ meal_plans /= <<>>
    /\ recent_recipe_ids = PlanIds(meal_plans[today])
    /\ \E s \in 1..3 : selected[s].id \notin recent_recipe_ids
    /\ meal_plan /= meal_plans[today]

----------------------------------------------------------------------------
(* PerceptionModule.parse_ingredients *)

\* a whitespace-separated part of a raw string: its text and what float() makes of it
\* (Unset when float() raises ValueError)
Token(text, number) == [text |-> text, number |-> number]

\* " ".join(parts): the joined name is kept as the sequence of its words, "" is <<>>
Join(parts) == [i \in DOMAIN parts |-> parts[i].text]

\* the body of the loop for one raw string: an Ingredient, or ValueError
ParseOne(parts) ==
    IF parts = <<>> \/ parts[1].number = Unset
    THEN [error |-> TRUE, ingredient |-> None]
    ELSE IF Len(parts) >= 3
         THEN [error |-> FALSE,
               ingredient |-> MkIngredient(Join(SubSeq(parts, 3, Len(parts))),
                                           parts[1].number[1], parts[2].text)]
         ELSE [error |-> FALSE,
               ingredient |-> MkIngredient(Join(SubSeq(parts, 2, Len(parts))),
                                           parts[1].number[1], "piece")]

RECURSIVE ParseLoop(_, _)
ParseLoop(raws, parsed_ingredients) ==
    IF raws = <<>> THEN [error |-> FALSE, parsed |-> parsed_ingredients]
    ELSE LET one == ParseOne(Head(raws))
         IN  IF one.error THEN [error |-> TRUE, parsed |-> <<>>]
             ELSE ParseLoop(Tail(raws), Append(parsed_ingredients, one.ingredient))

parse_ingredients(raws) == ParseLoop(raws, <<>>)

----------------------------------------------------------------------------
(* Parsing specification: parse_ingredients on drawn raw strings, the result     *)
(* becoming preferences.available_ingredients as in main                         *)

Tokens ==
    {Token("0", Some(0)), Token("-1", Some(-1)), Token("2", Some(2)),
     Token("rice", Unset)}

RawStrings == SeqUpTo(Tokens, MaxTokens)

InitParse ==
    /\ today = 0
    /\ meal_plans = <<>>
    /\ recent_recipe_ids = {}
    /\ last_op = "init"
    /\ available_recipes = <<>>
    /\ preferences = MkPreferences("none", <<>>, <<>>, Unset)
    /\ selected = <<>>
    /\ meals = <<>>
    /\ meal_plan = None
    /\ score = None
    /\ raw_ingredients \in SeqUpTo(RawStrings, MaxRaw)
    /\ saved_recipes = <<>>
    /\ ret = None
    /\ plan_log = {}
    /\ calls = <<>>
    /\ mem0 = None

ParseIngredients ==
    /\ last_op = "init"
    /\ ~parse_ingredients(raw_ingredients).error
    /\ ret' = parse_ingredients(raw_ingredients).parsed
    /\ preferences' = MkPreferences("none", ret', <<>>, Some(60))
    /\ last_op' = "parse_ingredients"
    /\ UNCHANGED <<memvars, available_recipes, selected, meals, meal_plan, score,
                   raw_ingredients, saved_recipes, plan_log, calls, mem0>>

ParseIngredientsRaises ==
    /\ last_op = "init"
    /\ parse_ingredients(raw_ingredients).error
    /\ last_op' = "ValueError"
    /\ UNCHANGED <<memvars, available_recipes, preferences, selected, meals, meal_plan,
                   score, auxvars>>

NextParse == ParseIngredients \/ ParseIngredientsRaises

SpecParse == InitParse /\ [][NextParse]_vars

\* C13: an Ingredient with quantity <= 0, an empty name or an empty unit is refused
\* when it is constructed, so none is ever among the parsed ingredients handed on to
\* matching, scoring and aggregation.
C13_NoMalformedIngredient ==
    last_op = "parse_ingredients" =>
        \A i \in DOMAIN preferences.available_ingredients :
            LET ing == preferences.available_ingredients[i]
            IN  ing.quantity > 0 /\ ing.name /= <<>> /\ ing.unit /= ""

----------------------------------------------------------------------------
(* Claims about the score *)

ScoredRecipe == available_recipes[1]

AvailableNames ==
    {preferences.available_ingredients[i].name :
        i \in DOMAIN preferences.available_ingredients}

RequiredNames ==
    {ScoredRecipe.required_ingredients[i].name :
        i \in DOMAIN ScoredRecipe.required_ingredients}

ExcludedNames ==
    {preferences.excluded_ingredients[i] : i \in DOMAIN preferences.excluded_ingredients}

\* 5*|A \cap R|/|R| (0 when R is empty) + 3 on a dietary match - 10 once on an excluded name
ExpectedBaseScore ==
    LET k == Cardinality(AvailableNames \cap RequiredNames)
        n == Cardinality(RequiredNames)
        c == (IF preferences.dietary_preference \in Range(ScoredRecipe.dietary_preferences)
              THEN 3 ELSE 0)
             + (IF ExcludedNames \cap RequiredNames /= {} THEN -10 ELSE 0)
    IN  IF n = 0 THEN Frac(c, 1) ELSE Frac(5 * k + c * n, n)

\* C8: with max_preparation_time unset the score is 5*|A \cap R|/|R| (0 for empty R),
\* plus 3 on a dietary match, minus 10 once when some excluded name is in R; only the
\* sets of names matter.
C8_ScoreFormula ==
    (last_op = "score" /\ preferences.max_preparation_time = Unset)
        => (score.den > 0 /\ FracEQ(score, ExpectedBaseScore))

\* C8 witness: a scored recipe with two matching excluded names, a requirement that
\* is half available from a pool with a repeated name, and a dietary match
C8_Witness ==
    /\ last_op = "score"
    /\ preferences.max_preparation_time = Unset
    /\ Cardinality(ExcludedNames \cap RequiredNames) = 2
    /\ Len(preferences.available_ingredients) > Cardinality(AvailableNames)
    /\ preferences.dietary_preference \in Range(ScoredRecipe.dietary_preferences)
    /\ score = Frac(-9, 2)

\* C9: whenever max_preparation_time is set (0 included) the preparation-time term is
\* +2 if preparation_time <= max_preparation_time and -1 otherwise.
C9_PrepTimeTermWhenSet ==
    (last_op = "score" /\ preferences.max_preparation_time /= Unset)
        => FracEQ(score,
                  AddInt(ExpectedBaseScore,
                         IF ScoredRecipe.preparation_time
                                <= preferences.max_preparation_time[1]
                         THEN 2 ELSE -1))

====
